---- MODULE Spec2Model ----
(***************************************************************************)
(* A model of the Flow Production Tracking API client (package flowapi):   *)
(* the token session of client.go and the entity operations of             *)
(* entities.go.                                                            *)
(*                                                                         *)
(* Spec      one caller; every operation runs to completion in one step.   *)
(* SpecConc  two callers inside GetAccessToken, interleaved at the reads   *)
(*           and writes of the session fields.                             *)
(*                                                                         *)
(* Time is counted in whole seconds.  The remote service is the source of  *)
(* nondeterminism: every HTTP round trip draws its outcome from a small    *)
(* set of replies.                                                         *)
(***************************************************************************)
EXTENDS Integers, Sequences, FiniteSets, TLC

VARIABLES
    client,        \* the immutable fields of the Client (baseURL, scriptName, scriptKey); NoClient before construction
    accessToken,   \* Client.accessToken
    refreshToken,  \* Client.refreshToken
    tokenExpiry,   \* Client.tokenExpiry, seconds
    now,           \* the wall clock read by time.Now(), seconds
    op,            \* name of the operation that ran last ("" when none, or after time passed)
    args,          \* the arguments that operation was called with
    pre,           \* the session and the clock as that operation found them
    exchanges,     \* the token-endpoint round trips that operation made, in order
    requests,      \* the entity-endpoint requests that operation sent, in order
    ret,           \* what that operation returned (SpecConc: what each caller's GetAccessToken returned)
    pc,            \* SpecConc: each caller's position inside GetAccessToken
    tokenResp,     \* SpecConc: each caller's local tokenResp (client.go:133)
    seen,          \* SpecConc: the tokenExpiry each caller read at client.go:149, and whose exchange had written it
    writer,        \* SpecConc: which caller's exchange wrote each session field last (0: the constructor's)
    order,         \* SpecConc: the callers in the order their exchanges were answered
    observed       \* SpecConc: the session as each caller found it at client.go:155: the writers of
                   \* accessToken and tokenExpiry, and the tokenExpiry

vars == <<client, accessToken, refreshToken, tokenExpiry, now, op, args, pre, exchanges,
          requests, ret, pc, tokenResp, seen, writer, order, observed>>

logVars == <<op, args, pre, exchanges, requests, ret>>
concVars == <<pc, tokenResp, seen, writer, order, observed>>

\* ------------------------------------------------------------------ bounds

\* The clock stops at MaxNow seconds.
MaxNow == 2

\* ------------------------------------------------------- program constants

\* client.go:149, the refresh margin of GetAccessToken: 60 * time.Second.
ExpiryBuffer == 60
\* net/http: StatusOK, StatusCreated.
StatusOK == 200
StatusCreated == 201

\* ------------------------------------------------------------------ errors

\* An error value: the messages of the fmt.Errorf chain, outermost first, and the
\* status code and raw body the innermost message was formatted with.
NoErr == [chain |-> <<>>, status |-> 0, body |-> ""]
Err(msg) == [chain |-> <<msg>>, status |-> 0, body |-> ""]
ErrStatus(msg, status, body) == [chain |-> <<msg>>, status |-> status, body |-> body]
\* fmt.Errorf("msg: %w", e)
Wrap(msg, e) == [e EXCEPT !.chain = <<msg>> \o e.chain]

\* ------------------------------------------------------- configuration

GoodSiteURL == "https://site.example"
\* A site URL that url.Parse rejects (invalid URL escape), so http.NewRequest fails.
BadSiteURL == "%zz"
SiteURLs == {"", GoodSiteURL, BadSiteURL}
Configs == [SiteURL : SiteURLs, ScriptName : {"", "script"}, ScriptKey : {"", "key"}]

\* http.NewRequest parses the URL it is given; a URL built on a prefix that does
\* not parse does not parse.
UrlParses(u) == u # BadSiteURL

NoClient == [baseURL |-> "", scriptName |-> "", scriptKey |-> ""]

\* ------------------------------------------------------- the token endpoint

\* What one POST to /auth/access_token may produce: the transport fails
\* (httpClient.Do returns an error), the body cannot be read, or the endpoint
\* answers with a status and a body.  A body either decodes into a TokenResponse
\* or does not.
ExpiresInValues == {0, 60, 61}
TokenPairs == {[access |-> "tokA", refresh |-> "refA"],
               [access |-> "tokB", refresh |-> "refB"],
               [access |-> "", refresh |-> ""]}
TokenReply(kind, status, decodes, raw, access, refresh, expires) ==
    [kind |-> kind, status |-> status, decodes |-> decodes, raw |-> raw,
     access_token |-> access, refresh_token |-> refresh, expires_in |-> expires]
TokenReplies ==
    {TokenReply("sendfail", 0, FALSE, "", "", "", 0),
     TokenReply("readfail", StatusOK, FALSE, "", "", "", 0),
     TokenReply("answer", 401, FALSE, "denied", "", "", 0),
     TokenReply("answer", StatusOK, FALSE, "garbage", "", "", 0)}
    \cup {TokenReply("answer", StatusOK, TRUE, "token-json", p.access, p.refresh, e) :
            p \in TokenPairs, e \in ExpiresInValues}

\* ------------------------------------------------------------ the session

Session(a, r, e) == [accessToken |-> a, refreshToken |-> r, tokenExpiry |-> e]
\* The zero value of the three fields in a freshly allocated Client
\* (time.Time{} lies far in the past: modelled as second 0 minus a day).
ZeroExpiry == 0 - 86400
ZeroSession == Session("", "", ZeroExpiry)

\* The bug this stands for: the fields are assigned as the body is decoded, so a
\* body that fails to decode has already replaced the access token.
authenticateEager(c, s, t, reply) ==
    IF ~UrlParses(c.baseURL)
    THEN [s |-> s, err |-> Err("failed to create request"), sent |-> <<>>]
    ELSE IF reply.kind = "sendfail"
    THEN [s |-> s, err |-> Err("failed to send request"), sent |-> <<reply>>]
    ELSE IF reply.kind = "readfail"
    THEN [s |-> s, err |-> Err("failed to read response"), sent |-> <<reply>>]
    ELSE IF reply.status # StatusOK
    THEN [s |-> s,
          err |-> ErrStatus("authentication failed with status", reply.status, reply.raw),
          sent |-> <<reply>>]
    ELSE IF ~reply.decodes
    THEN [s |-> Session(reply.raw, s.refreshToken, s.tokenExpiry),
          err |-> Err("failed to parse token response"), sent |-> <<reply>>]
    ELSE [s |-> Session(reply.access_token, reply.refresh_token, t + reply.expires_in),
          err |-> NoErr, sent |-> <<reply>>]

\* Client.authenticate on client c with session s at time t, the endpoint
\* behaving as reply: the session afterwards, the error returned, and the round
\* trips made (none when the request could not be built).
authenticate(c, s, t, reply) ==
    IF ~UrlParses(c.baseURL)
    THEN [s |-> s, err |-> Err("failed to create request"), sent |-> <<>>]
    ELSE IF reply.kind = "sendfail"
    THEN [s |-> s, err |-> Err("failed to send request"), sent |-> <<reply>>]
    ELSE IF reply.kind = "readfail"
    THEN [s |-> s, err |-> Err("failed to read response"), sent |-> <<reply>>]
    ELSE IF reply.status # StatusOK
    THEN [s |-> s,
          err |-> ErrStatus("authentication failed with status", reply.status, reply.raw),
          sent |-> <<reply>>]
    ELSE IF ~reply.decodes
    THEN [s |-> s, err |-> Err("failed to parse token response"), sent |-> <<reply>>]
    ELSE [s |-> Session(reply.access_token, reply.refresh_token, t + reply.expires_in),
          err |-> NoErr, sent |-> <<reply>>]

\* What GetAccessToken returns once authenticate has returned a (client.go:150-155):
\* on an error the empty token and the error, else the stored accessToken.
Refreshed(a) ==
    IF a.err # NoErr
    THEN [token |-> "", err |-> a.err, s |-> a.s, sent |-> a.sent]
    ELSE [token |-> a.s.accessToken, err |-> NoErr, s |-> a.s, sent |-> a.sent]

\* The bug this stands for: the margin test written as !Before instead of After,
\* which also refreshes at the boundary now + 60s = tokenExpiry.
GetAccessTokenNotBefore(c, s, t, reply) ==
    IF t + ExpiryBuffer >= s.tokenExpiry
    THEN Refreshed(authenticate(c, s, t, reply))
    ELSE [token |-> s.accessToken, err |-> NoErr, s |-> s, sent |-> <<>>]

\* The test of client.go:149, time.Now().Add(60s).After(c.tokenExpiry), at time
\* t against the expiry e: the strict t + 60 > e.
Expiring(t, e) == t + ExpiryBuffer > e

\* Client.GetAccessToken: refresh when the token is expiring, else the stored token.
GetAccessToken(c, s, t, reply) ==
    IF Expiring(t, s.tokenExpiry)
    THEN Refreshed(authenticate(c, s, t, reply))
    ELSE [token |-> s.accessToken, err |-> NoErr, s |-> s, sent |-> <<>>]

\* The bug this stands for: !After instead of Before, which counts the instant of
\* expiry as still valid.
IsAuthenticatedNotAfter(s, t) == s.accessToken # "" /\ t <= s.tokenExpiry

\* Client.IsAuthenticated
IsAuthenticated(s, t) == s.accessToken # "" /\ t < s.tokenExpiry

\* The Client literal of client.go:76-82.
ClientOf(config) ==
    [baseURL |-> config.SiteURL, scriptName |-> config.ScriptName, scriptKey |-> config.ScriptKey]

\* What NewClient returns once the first authenticate on c has returned a
\* (client.go:85-89).
Constructed(c, a) ==
    IF a.err # NoErr
    THEN [c |-> NoClient, s |-> ZeroSession,
          err |-> Wrap("initial authentication failed", a.err), sent |-> a.sent]
    ELSE [c |-> c, s |-> a.s, err |-> NoErr, sent |-> a.sent]

\* The bug this stands for: the site URL check dropped, so an empty site URL
\* reaches authenticate.
NewClientNoSiteCheck(config, t, reply) ==
    IF config.ScriptName = ""
    THEN [c |-> NoClient, s |-> ZeroSession, err |-> Err("script name is required"), sent |-> <<>>]
    ELSE IF config.ScriptKey = ""
    THEN [c |-> NoClient, s |-> ZeroSession, err |-> Err("script key is required"), sent |-> <<>>]
    ELSE Constructed(ClientOf(config), authenticate(ClientOf(config), ZeroSession, t, reply))

\* NewClient called at time t: the client and its session (NoClient when it
\* returns nil), the error, and the round trips made.
NewClient(config, t, reply) ==
    IF config.SiteURL = ""
    THEN [c |-> NoClient, s |-> ZeroSession, err |-> Err("site URL is required"), sent |-> <<>>]
    ELSE IF config.ScriptName = ""
    THEN [c |-> NoClient, s |-> ZeroSession, err |-> Err("script name is required"), sent |-> <<>>]
    ELSE IF config.ScriptKey = ""
    THEN [c |-> NoClient, s |-> ZeroSession, err |-> Err("script key is required"), sent |-> <<>>]
    ELSE Constructed(ClientOf(config), authenticate(ClientOf(config), ZeroSession, t, reply))

\* NewClientFromEnv, given what getEnv returns for the three variables once
\* tryLoadEnv has run (the process environment, completed from a .env file).
Envs == [FLOW_SITE_URL : SiteURLs, FLOW_SCRIPT_NAME : {"", "script"}, FLOW_SCRIPT_KEY : {"", "key"}]
NewClientFromEnv(env, t, reply) ==
    IF env.FLOW_SITE_URL = ""
    THEN [c |-> NoClient, s |-> ZeroSession,
          err |-> Err("FLOW_SITE_URL environment variable is required"), sent |-> <<>>]
    ELSE IF env.FLOW_SCRIPT_NAME = ""
    THEN [c |-> NoClient, s |-> ZeroSession,
          err |-> Err("FLOW_SCRIPT_NAME environment variable is required"), sent |-> <<>>]
    ELSE IF env.FLOW_SCRIPT_KEY = ""
    THEN [c |-> NoClient, s |-> ZeroSession,
          err |-> Err("FLOW_SCRIPT_KEY environment variable is required"), sent |-> <<>>]
    ELSE NewClient([SiteURL |-> env.FLOW_SITE_URL, ScriptName |-> env.FLOW_SCRIPT_NAME,
                    ScriptKey |-> env.FLOW_SCRIPT_KEY], t, reply)

\* ------------------------------------------------------------ JSON values

\* A decoded JSON value as Go holds it in an interface{}: its dynamic type k
\* ("null", "str", "num" for float64, "int" for int, "obj" for
\* map[string]interface{}) and its content.  A float64 is n + f/10, n >= 0.
EmptyMap == [k \in {} |-> 0]
JNull == [k |-> "null", n |-> 0, f |-> 0, s |-> "", o |-> EmptyMap]
JStr(s) == [k |-> "str", n |-> 0, f |-> 0, s |-> s, o |-> EmptyMap]
JNum(n, f) == [k |-> "num", n |-> n, f |-> f, s |-> "", o |-> EmptyMap]
JInt(n) == [k |-> "int", n |-> n, f |-> 0, s |-> "", o |-> EmptyMap]
JObj(o) == [k |-> "obj", n |-> 0, f |-> 0, s |-> "", o |-> o]

\* m with the entries of n written over it: for k, v := range n { m[k] = v }
Merge(m, n) == [k \in DOMAIN m \cup DOMAIN n |-> IF k \in DOMAIN n THEN n[k] ELSE m[k]]

\* One element of a response envelope's data, as json.Unmarshal leaves it in the
\* anonymous struct {ID int; Type string; Attributes, Relationships map}.
Item(id, type, attributes, relationships) ==
    [id |-> id, type |-> type, attributes |-> attributes, relationships |-> relationships]
ZeroItem == Item(0, "", EmptyMap, EmptyMap)

\* A linked entity as the service writes it: the object itself, or the object
\* one level under a "data" key.
Link(type, id) == JObj([type |-> JStr(type), id |-> id])
WrappedLink(type, id) == JObj([data |-> Link(type, id)])

ItemShot ==
    Item(7, "Shot",
         [code |-> JStr("sh010"), project |-> JStr("by-attribute")],
         [project |-> Link("Project", JNum(1, 0)), sequence |-> JNull])
ItemTask ==
    Item(11, "Task",
         [content |-> JStr("anim"), entity |-> JStr("by-attribute")],
         [entity |-> WrappedLink("Shot", JNum(7, 0))])
ItemTaskDirect ==
    Item(12, "Task",
         [content |-> JStr("comp"), id |-> JNum(99, 0)],
         [entity |-> Link("Shot", JNum(8, 0))])
ItemTaskAsset ==
    Item(13, "Task", [content |-> JStr("model")], [entity |-> Link("Asset", JNum(7, 0))])
\* A second task of shot 7, linked directly; a task whose entity is a string; a
\* task without the key.
ItemTaskSame ==
    Item(14, "Task", [content |-> JStr("light")], [entity |-> Link("Shot", JNum(7, 0))])
ItemTaskNoLink ==
    Item(15, "Task", [content |-> JStr("plate"), entity |-> JStr("none")], EmptyMap)
ItemTaskBare ==
    Item(16, "Task", [content |-> JStr("notes")], EmptyMap)

\* A response body: its text (raw) and what it decodes to.  shape "list" is
\* {"data": [...]}, "object" is {"data": {...}}, "empty" is {} and "garbage" is
\* not JSON.
Body(raw, shape, data) == [raw |-> raw, shape |-> shape, data |-> data]
NoBody == Body("", "garbage", <<>>)
Bodies ==
    {Body("garbage", "garbage", <<>>),
     Body("{}", "empty", <<>>),
     Body("list0", "list", <<>>),
     Body("list1", "list", <<ItemTask>>),
     Body("list2", "list", <<ItemTaskDirect, ItemTask>>),
     Body("list3", "list", <<ItemTaskAsset>>),
     Body("list4", "list", <<ItemTask, ItemTaskNoLink, ItemTaskSame, ItemTaskBare, ItemTaskAsset>>),
     Body("object", "object", <<ItemShot>>)}

\* json.Unmarshal into struct{Data []struct{...}}: an absent data leaves the
\* slice nil; an object where the array is expected is an error.
DecodeList(body) ==
    IF body.shape = "list" THEN [ok |-> TRUE, data |-> body.data]
    ELSE IF body.shape = "empty" THEN [ok |-> TRUE, data |-> <<>>]
    ELSE [ok |-> FALSE, data |-> <<>>]
\* json.Unmarshal into struct{Data struct{...}}: an absent data leaves the zero
\* struct; an array where the object is expected is an error.
DecodeObject(body) ==
    IF body.shape = "object" THEN [ok |-> TRUE, data |-> body.data[1]]
    ELSE IF body.shape = "empty" THEN [ok |-> TRUE, data |-> ZeroItem]
    ELSE [ok |-> FALSE, data |-> ZeroItem]

\* What one request to an entity endpoint may produce.
EntityReply(kind, status, body) == [kind |-> kind, status |-> status, body |-> body]
EntityReplies ==
    {EntityReply("sendfail", 0, NoBody), EntityReply("readfail", StatusOK, NoBody),
     EntityReply("answer", 404, Body("not found", "garbage", <<>>))}
    \cup {EntityReply("answer", StatusOK, b) : b \in Bodies}
    \cup {EntityReply("answer", StatusCreated, b) : b \in {b \in Bodies : b.raw \in {"list1", "object"}}}

\* ------------------------------------------------------ entity operations

\* A filter condition [field, relation, operand]; the operand is a string, a
\* list of ids, or a {type, id} reference.
Cond(field, rel, str, ids, ref) == [field |-> field, rel |-> rel, str |-> str, ids |-> ids, ref |-> ref]
NoRef == [type |-> "", id |-> 0]
\* The filters argument: nil, or a list of conditions; marshals says whether
\* json.Marshal accepts the value the caller passed (it rejects NaN, channels,
\* functions).
Filters(nil, conds, marshals) == [nil |-> nil, conds |-> conds, marshals |-> marshals]
NilFilters == Filters(TRUE, <<>>, TRUE)
UnsupportedFilters == Filters(FALSE, <<Cond("frame", "is", "NaN", <<>>, NoRef)>>, FALSE)

\* An entity type that makes the request URL unparseable.
BadEntityType == "%zz"
EntityUrlParses(c, entityType) == UrlParses(c.baseURL) /\ entityType # BadEntityType

\* A request as handed to httpClient.Do.  token is what follows "Bearer " in the
\* Authorization header; stored is the session's accessToken at that moment and
\* after the number of token exchanges the call had made by then; reply is what
\* came back.
Request(method, kind, entityType, id, fields, token, filters, data, stored, after, reply) ==
    [method |-> method, kind |-> kind, entityType |-> entityType, id |-> id,
     fields |-> fields, token |-> token, filters |-> filters, data |-> data,
     stored |-> stored, after |-> after, reply |-> reply]

\* What an operation hands back: the session afterwards, the error, the entities
\* (a nil slice or nil Entity is nil = TRUE), the token exchanges and the entity
\* requests made.
Outcome(s, err, nil, entities, sent, reqs) ==
    [s |-> s, err |-> err, nil |-> nil, entities |-> entities, sent |-> sent, reqs |-> reqs]
\* return nil, err
Failed(g, err, reqs) == Outcome(g.s, err, TRUE, <<>>, g.sent, reqs)

\* entities.go:85-97
FindFlatten(item) ==
    Merge(Merge([id |-> JInt(item.id), type |-> JStr(item.type)], item.attributes),
          item.relationships)
\* The bug this stands for: the two merge loops in the other order.
GetFlattenAttributesLast(item) ==
    Merge(Merge([id |-> JInt(item.id), type |-> JStr(item.type)], item.relationships),
          item.attributes)

\* entities.go:153-164
GetFlatten(item) ==
    Merge(Merge([id |-> JInt(item.id), type |-> JStr(item.type)], item.attributes),
          item.relationships)
\* entities.go:221-232
CreateFlatten(item) ==
    Merge(Merge([id |-> JInt(item.id), type |-> JStr(item.type)], item.attributes),
          item.relationships)

\* entities.go:69-100: the body decoded and every item flattened.
FindDecoded(g, d, req) ==
    IF ~d.ok
    THEN Failed(g, Err("failed to parse response"), <<req>>)
    ELSE Outcome(g.s, NoErr, FALSE, [i \in 1..Len(d.data) |-> FindFlatten(d.data[i])],
                 g.sent, <<req>>)

\* The bug this stands for: the request sent before the token error is looked at.
FindSentBeforeTokenCheck(c, g, entityType, filters, req, ereply) ==
    IF g.err # NoErr
    THEN Failed(g, Wrap("failed to get access token", g.err), <<req>>)
    ELSE IF ~filters.marshals
    THEN Failed(g, Err("failed to marshal request"), <<>>)
    ELSE IF ~EntityUrlParses(c, entityType)
    THEN Failed(g, Err("failed to create request"), <<>>)
    ELSE IF ereply.kind = "sendfail"
    THEN Failed(g, Err("failed to send request"), <<req>>)
    ELSE IF ereply.kind = "readfail"
    THEN Failed(g, Err("failed to read response"), <<req>>)
    ELSE IF ereply.status # StatusOK
    THEN Failed(g, ErrStatus("request failed with status", ereply.status, ereply.body.raw), <<req>>)
    ELSE FindDecoded(g, DecodeList(ereply.body), req)

\* entities.go:21-67, GetAccessToken having returned g; req is the request the
\* call sends if it gets that far.
FindSent(c, g, entityType, filters, req, ereply) ==
    IF g.err # NoErr
    THEN Failed(g, Wrap("failed to get access token", g.err), <<>>)
    ELSE IF ~filters.marshals
    THEN Failed(g, Err("failed to marshal request"), <<>>)
    ELSE IF ~EntityUrlParses(c, entityType)
    THEN Failed(g, Err("failed to create request"), <<>>)
    ELSE IF ereply.kind = "sendfail"
    THEN Failed(g, Err("failed to send request"), <<req>>)
    ELSE IF ereply.kind = "readfail"
    THEN Failed(g, Err("failed to read response"), <<req>>)
    ELSE IF ereply.status # StatusOK
    THEN Failed(g, ErrStatus("request failed with status", ereply.status, ereply.body.raw), <<req>>)
    ELSE FindDecoded(g, DecodeList(ereply.body), req)

\* The search request: filters is the "filters" member of the body, the empty
\* array when the argument is nil.
FindRequest(g, entityType, filters, fields, ereply) ==
    Request("POST", "search", entityType, 0, fields, g.token,
            IF filters.nil THEN <<>> ELSE filters.conds, EmptyMap,
            g.s.accessToken, Len(g.sent), ereply)

FindWithToken(c, g, entityType, filters, fields, ereply) ==
    FindSent(c, g, entityType, filters, FindRequest(g, entityType, filters, fields, ereply), ereply)

\* Client.FindEntities(entityType, filters, fields) on client c with session s at
\* time t; treply is the token endpoint's behaviour should it be asked, ereply
\* the entity endpoint's.
FindEntities(c, s, t, entityType, filters, fields, treply, ereply) ==
    FindWithToken(c, GetAccessToken(c, s, t, treply), entityType, filters, fields, ereply)

\* entities.go:139-166
GetDecoded(g, d, req) ==
    IF ~d.ok
    THEN Failed(g, Err("failed to parse response"), <<req>>)
    ELSE Outcome(g.s, NoErr, FALSE, <<GetFlatten(d.data)>>, g.sent, <<req>>)

\* entities.go:105-137
GetSent(c, g, entityType, req, ereply) ==
    IF g.err # NoErr
    THEN Failed(g, Wrap("failed to get access token", g.err), <<>>)
    ELSE IF ~EntityUrlParses(c, entityType)
    THEN Failed(g, Err("failed to create request"), <<>>)
    ELSE IF ereply.kind = "sendfail"
    THEN Failed(g, Err("failed to send request"), <<req>>)
    ELSE IF ereply.kind = "readfail"
    THEN Failed(g, Err("failed to read response"), <<req>>)
    ELSE IF ereply.status # StatusOK
    THEN Failed(g, ErrStatus("request failed with status", ereply.status, ereply.body.raw), <<req>>)
    ELSE GetDecoded(g, DecodeObject(ereply.body), req)

GetWithToken(c, g, entityType, id, fields, ereply) ==
    GetSent(c, g, entityType,
            Request("GET", "get", entityType, id, fields, g.token, <<>>, EmptyMap,
                    g.s.accessToken, Len(g.sent), ereply),
            ereply)

\* Client.GetEntity(entityType, id, fields)
GetEntity(c, s, t, entityType, id, fields, treply, ereply) ==
    GetWithToken(c, GetAccessToken(c, s, t, treply), entityType, id, fields, ereply)

\* The data argument of CreateEntity: the field values, and whether json.Marshal
\* accepts them.
EntityData(fieldValues, marshals) == [fieldValues |-> fieldValues, marshals |-> marshals]

\* entities.go:207-234
CreateDecoded(g, d, req) ==
    IF ~d.ok
    THEN Failed(g, Err("failed to parse response"), <<req>>)
    ELSE Outcome(g.s, NoErr, FALSE, <<CreateFlatten(d.data)>>, g.sent, <<req>>)

\* The bug this stands for: any 2xx status taken for success.
CreateSentAny2xx(c, g, entityType, data, req, ereply) ==
    IF g.err # NoErr
    THEN Failed(g, Wrap("failed to get access token", g.err), <<>>)
    ELSE IF ~data.marshals
    THEN Failed(g, Err("failed to marshal request"), <<>>)
    ELSE IF ~EntityUrlParses(c, entityType)
    THEN Failed(g, Err("failed to create request"), <<>>)
    ELSE IF ereply.kind = "sendfail"
    THEN Failed(g, Err("failed to send request"), <<req>>)
    ELSE IF ereply.kind = "readfail"
    THEN Failed(g, Err("failed to read response"), <<req>>)
    ELSE IF ereply.status < 200 \/ ereply.status > 299
    THEN Failed(g, ErrStatus("request failed with status", ereply.status, ereply.body.raw), <<req>>)
    ELSE CreateDecoded(g, DecodeObject(ereply.body), req)

\* entities.go:171-205
CreateSent(c, g, entityType, data, req, ereply) ==
    IF g.err # NoErr
    THEN Failed(g, Wrap("failed to get access token", g.err), <<>>)
    ELSE IF ~data.marshals
    THEN Failed(g, Err("failed to marshal request"), <<>>)
    ELSE IF ~EntityUrlParses(c, entityType)
    THEN Failed(g, Err("failed to create request"), <<>>)
    ELSE IF ereply.kind = "sendfail"
    THEN Failed(g, Err("failed to send request"), <<req>>)
    ELSE IF ereply.kind = "readfail"
    THEN Failed(g, Err("failed to read response"), <<req>>)
    ELSE IF ereply.status # StatusCreated
    THEN Failed(g, ErrStatus("request failed with status", ereply.status, ereply.body.raw), <<req>>)
    ELSE CreateDecoded(g, DecodeObject(ereply.body), req)

CreateWithToken(c, g, entityType, data, ereply) ==
    CreateSent(c, g, entityType, data,
               Request("POST", "create", entityType, 0, <<>>, g.token, <<>>, data.fieldValues,
                       g.s.accessToken, Len(g.sent), ereply),
               ereply)

\* Client.CreateEntity(entityType, data)
CreateEntity(c, s, t, entityType, data, treply, ereply) ==
    CreateWithToken(c, GetAccessToken(c, s, t, treply), entityType, data, ereply)

\* ------------------------------------------------------ convenience queries

UserFields == <<"id", "name", "login", "email">>

\* The bug this stands for: the last match returned instead of the first.
LoginResultLast(users, login) ==
    IF users.err # NoErr
    THEN Outcome(users.s, users.err, TRUE, <<>>, users.sent, users.reqs)
    ELSE IF Len(users.entities) = 0
    THEN Outcome(users.s, ErrStatus("user not found with login", 0, login), TRUE, <<>>,
                 users.sent, users.reqs)
    ELSE Outcome(users.s, NoErr, FALSE, <<users.entities[Len(users.entities)]>>,
                 users.sent, users.reqs)

\* entities.go:243-251, the search having returned users.
LoginResult(users, login) ==
    IF users.err # NoErr
    THEN Outcome(users.s, users.err, TRUE, <<>>, users.sent, users.reqs)
    ELSE IF Len(users.entities) = 0
    THEN Outcome(users.s, ErrStatus("user not found with login", 0, login), TRUE, <<>>,
                 users.sent, users.reqs)
    ELSE Outcome(users.s, NoErr, FALSE, <<users.entities[1]>>, users.sent, users.reqs)

\* Client.GetUserByLogin(login)
GetUserByLogin(c, s, t, login, treply, ereply) ==
    LoginResult(FindEntities(c, s, t, "human_users",
                             Filters(FALSE, <<Cond("login", "is", login, <<>>, NoRef)>>, TRUE),
                             UserFields, treply, ereply),
                login)

\* entities.go:260-268, the search having returned users.
NameResult(users, name) ==
    IF users.err # NoErr
    THEN Outcome(users.s, users.err, TRUE, <<>>, users.sent, users.reqs)
    ELSE IF Len(users.entities) = 0
    THEN Outcome(users.s, ErrStatus("user not found with name", 0, name), TRUE, <<>>,
                 users.sent, users.reqs)
    ELSE Outcome(users.s, NoErr, FALSE, <<users.entities[1]>>, users.sent, users.reqs)

\* Client.GetUserByName(name)
GetUserByName(c, s, t, name, treply, ereply) ==
    NameResult(FindEntities(c, s, t, "human_users",
                            Filters(FALSE, <<Cond("name", "is", name, <<>>, NoRef)>>, TRUE),
                            UserFields, treply, ereply),
               name)

\* Client.GetTasksForUser(userID, fields)
GetTasksForUser(c, s, t, userID, fields, treply, ereply) ==
    FindEntities(c, s, t, "tasks",
                 Filters(FALSE, <<Cond("task_assignees", "is", "", <<>>,
                                       [type |-> "HumanUser", id |-> userID])>>, TRUE),
                 IF Len(fields) = 0 THEN <<"content", "entity", "sg_status_list", "project">>
                 ELSE fields,
                 treply, ereply)

\* The bug this stands for: the unwrapping of entities.go:351-353 left out, so a
\* link under a "data" key is never read.
UnwrappedNever(entity) == entity

\* entity["data"] taken in place of entity when it is an object (entities.go:351-353).
Unwrapped(entity) ==
    IF "data" \in DOMAIN entity /\ entity["data"].k = "obj" THEN entity["data"].o ELSE entity

\* The linked entity of a task as GetShotsForUser reads it (entities.go:349-353);
\* EmptyMap stands for "task[entity] is no object".
LinkedEntity(task) ==
    IF "entity" \in DOMAIN task /\ task["entity"].k = "obj"
    THEN Unwrapped(task["entity"].o)
    ELSE EmptyMap

\* The ids a linked entity adds to shotIDs (entities.go:355-361): int(id) of a
\* float64 id drops the fraction.
LinkedShotIDs(entity) ==
    IF /\ "type" \in DOMAIN entity
       /\ entity["type"].k = "str"
       /\ entity["type"].s = "Shot"
       /\ "id" \in DOMAIN entity
       /\ entity["id"].k \in {"num", "int"}
    THEN {entity["id"].n}
    ELSE {}

\* The keys of the shotIDs map after the loop of entities.go:348-363.
ShotIDs(tasks) == UNION {LinkedShotIDs(LinkedEntity(tasks[i])) : i \in 1..Len(tasks)}

\* The orders in which ranging over a Go map may yield the keys S.
Orderings(S) ==
    {q \in [1..Cardinality(S) -> S] : \A i, j \in 1..Cardinality(S) : q[i] = q[j] => i = j}

\* The requests rs of a nested call, counted after the n exchanges made before it.
After(rs, n) == [i \in 1..Len(rs) |-> [rs[i] EXCEPT !.after = @ + n]]

\* The result of GetShotsForUser when both searches ran.
ShotsFetched(tasks, shots) ==
    Outcome(shots.s, shots.err, shots.nil, shots.entities, tasks.sent \o shots.sent,
            tasks.reqs \o After(shots.reqs, Len(tasks.sent)))

\* The bug this stands for: the len(shotIDs) == 0 return left out, so the shots
\* lookup is sent with an empty id list.
ShotsForTasksAlwaysLookup(c, t, tasks, fields, treply2, ereply2, ids) ==
    IF tasks.err # NoErr
    THEN Outcome(tasks.s, tasks.err, TRUE, <<>>, tasks.sent, tasks.reqs)
    ELSE ShotsFetched(tasks,
                      FindEntities(c, tasks.s, t, "shots",
                                   Filters(FALSE, <<Cond("id", "in", "", ids, NoRef)>>, TRUE),
                                   IF Len(fields) = 0
                                   THEN <<"code", "description", "sg_status_list", "project">>
                                   ELSE fields,
                                   treply2, ereply2))

\* entities.go:342-384, the tasks search having returned tasks.
ShotsForTasks(c, t, tasks, fields, treply2, ereply2, ids) ==
    IF tasks.err # NoErr
    THEN Outcome(tasks.s, tasks.err, TRUE, <<>>, tasks.sent, tasks.reqs)
    ELSE IF ShotIDs(tasks.entities) = {}
    THEN Outcome(tasks.s, NoErr, FALSE, <<>>, tasks.sent, tasks.reqs)
    ELSE ShotsFetched(tasks,
                      FindEntities(c, tasks.s, t, "shots",
                                   Filters(FALSE, <<Cond("id", "in", "", ids, NoRef)>>, TRUE),
                                   IF Len(fields) = 0
                                   THEN <<"code", "description", "sg_status_list", "project">>
                                   ELSE fields,
                                   treply2, ereply2))

\* Client.GetShotsForUser(userID, fields); treply2 and ereply2 are the endpoints'
\* behaviour during the shots lookup and ids the order in which the map of shot
\* ids is ranged over.
GetShotsForUser(c, s, t, userID, fields, treply, ereply, treply2, ereply2, ids) ==
    ShotsForTasks(c, t, GetTasksForUser(c, s, t, userID, <<"entity">>, treply, ereply),
                  fields, treply2, ereply2, ids)

\* ------------------------------------------------- the sequential machine

\* The callers of SpecConc; in Spec they stay outside GetAccessToken.
Callers == {1, 2}
NoTokenReply == TokenReply("none", 0, FALSE, "", "", "", 0)
IdleCallers ==
    /\ pc = [c \in Callers |-> "idle"]
    /\ tokenResp = [c \in Callers |-> NoTokenReply]
    /\ seen = [c \in Callers |-> [writer |-> 0, expiry |-> 0]]
    /\ writer = [accessToken |-> 0, refreshToken |-> 0, tokenExpiry |-> 0]
    /\ order = <<>>
    /\ observed = [c \in Callers |-> [accessToken |-> 0, tokenExpiry |-> 0, expiry |-> 0]]

\* What the last operation returned: its error, its entities (nil: a nil slice
\* or nil Entity), its token (GetAccessToken) or its boolean (IsAuthenticated).
Ret(err, nil, entities, token, flag) ==
    [err |-> err, nil |-> nil, entities |-> entities, token |-> token, flag |-> flag]
NoRet == Ret(NoErr, TRUE, <<>>, "", FALSE)
NoArgs == [none |-> TRUE]

CurrentSession == Session(accessToken, refreshToken, tokenExpiry)
Snapshot == [accessToken |-> accessToken, refreshToken |-> refreshToken,
             tokenExpiry |-> tokenExpiry, now |-> now]

Init ==
    /\ client = NoClient
    /\ accessToken = ZeroSession.accessToken
    /\ refreshToken = ZeroSession.refreshToken
    /\ tokenExpiry = ZeroSession.tokenExpiry
    /\ now = 0
    /\ op = ""
    /\ args = NoArgs
    /\ pre = Snapshot
    /\ exchanges = <<>>
    /\ requests = <<>>
    /\ ret = NoRet
    /\ IdleCallers

\* The session becomes s and the log describes the operation that just ran.
Finish(name, a, s, sent, reqs, r) ==
    /\ accessToken' = s.accessToken
    /\ refreshToken' = s.refreshToken
    /\ tokenExpiry' = s.tokenExpiry
    /\ op' = name
    /\ args' = a
    /\ pre' = Snapshot
    /\ exchanges' = sent
    /\ requests' = reqs
    /\ ret' = r
    /\ UNCHANGED <<now, pc, tokenResp, seen, writer, order, observed>>

\* The caller takes the result of the operation that ran; the next operation
\* starts from there.
Return ==
    /\ op # ""
    /\ op' = ""
    /\ args' = NoArgs
    /\ pre' = Snapshot
    /\ exchanges' = <<>>
    /\ requests' = <<>>
    /\ ret' = NoRet
    /\ UNCHANGED <<client, accessToken, refreshToken, tokenExpiry, now,
                   pc, tokenResp, seen, writer, order, observed>>

\* One second passes between two operations.
Tick ==
    /\ op = ""
    /\ now < MaxNow
    /\ now' = now + 1
    /\ op' = ""
    /\ args' = NoArgs
    /\ pre' = [Snapshot EXCEPT !.now = now + 1]
    /\ exchanges' = <<>>
    /\ requests' = <<>>
    /\ ret' = NoRet
    /\ UNCHANGED <<client, accessToken, refreshToken, tokenExpiry,
                   pc, tokenResp, seen, writer, order, observed>>

\* NewClient or NewClientFromEnv has returned r.
FinishConstruction(name, a, r) ==
    /\ client' = r.c
    /\ Finish(name, a, r.s, r.sent, <<>>, Ret(r.err, r.c = NoClient, <<>>, "", FALSE))

CallNewClient ==
    /\ op = ""
    /\ client = NoClient
    /\ \E config \in Configs, reply \in TokenReplies :
         FinishConstruction("NewClient", config, NewClient(config, now, reply))

CallNewClientFromEnv ==
    /\ op = ""
    /\ client = NoClient
    /\ \E env \in Envs, reply \in TokenReplies :
         FinishConstruction("NewClientFromEnv", env, NewClientFromEnv(env, now, reply))

FinishToken(g) ==
    Finish("GetAccessToken", NoArgs, g.s, g.sent, <<>>, Ret(g.err, FALSE, <<>>, g.token, FALSE))

CallGetAccessToken ==
    /\ op = ""
    /\ client # NoClient
    /\ \E reply \in TokenReplies :
         FinishToken(GetAccessToken(client, CurrentSession, now, reply))
    /\ UNCHANGED client

\* IsAuthenticated changes nothing, so it may also run on the heels of another
\* operation, before time passes.
CallIsAuthenticated ==
    /\ op # "IsAuthenticated"
    /\ client # NoClient
    /\ Finish("IsAuthenticated", [after |-> op], CurrentSession, <<>>, <<>>,
              Ret(NoErr, FALSE, <<>>, "", IsAuthenticated(CurrentSession, now)))
    /\ UNCHANGED client

\* The arguments the entity operations are called with.
EntityTypes == {"shots", BadEntityType}
FilterArgs == {NilFilters, UnsupportedFilters}
DataArgs == {EntityData([code |-> JStr("sh020")], TRUE), EntityData([frame |-> JStr("NaN")], FALSE)}

FinishEntities(name, a, out) ==
    Finish(name, a, out.s, out.sent, out.reqs, Ret(out.err, out.nil, out.entities, "", FALSE))

CallFindEntities ==
    /\ op = ""
    /\ client # NoClient
    /\ \E entityType \in EntityTypes, filters \in FilterArgs,
          treply \in TokenReplies, ereply \in EntityReplies :
         FinishEntities("FindEntities", [entityType |-> entityType, marshals |-> filters.marshals],
                        FindEntities(client, CurrentSession, now, entityType, filters, <<"code">>,
                                     treply, ereply))
    /\ UNCHANGED client

CallGetEntity ==
    /\ op = ""
    /\ client # NoClient
    /\ \E entityType \in EntityTypes, treply \in TokenReplies, ereply \in EntityReplies :
         FinishEntities("GetEntity", [entityType |-> entityType, marshals |-> TRUE],
                        GetEntity(client, CurrentSession, now, entityType, 7, <<"code">>,
                                  treply, ereply))
    /\ UNCHANGED client

CallCreateEntity ==
    /\ op = ""
    /\ client # NoClient
    /\ \E entityType \in EntityTypes, data \in DataArgs,
          treply \in TokenReplies, ereply \in EntityReplies :
         FinishEntities("CreateEntity", [entityType |-> entityType, marshals |-> data.marshals],
                        CreateEntity(client, CurrentSession, now, entityType, data, treply, ereply))
    /\ UNCHANGED client

CallGetUserByLogin ==
    /\ op = ""
    /\ client # NoClient
    /\ \E treply \in TokenReplies, ereply \in EntityReplies :
         FinishEntities("GetUserByLogin", [user |-> "ann"],
                        GetUserByLogin(client, CurrentSession, now, "ann", treply, ereply))
    /\ UNCHANGED client

CallGetUserByName ==
    /\ op = ""
    /\ client # NoClient
    /\ \E treply \in TokenReplies, ereply \in EntityReplies :
         FinishEntities("GetUserByName", [user |-> "Ann"],
                        GetUserByName(client, CurrentSession, now, "Ann", treply, ereply))
    /\ UNCHANGED client

\* The shot ids the tasks search leads to, {} when it fails.
FoundShotIDs(tasks) == IF tasks.err = NoErr THEN ShotIDs(tasks.entities) ELSE {}
NoEntityReply == EntityReply("none", 0, NoBody)

\* The shots lookup draws its replies and the order of the ids only when the
\* tasks search found shot ids.
CallGetShotsForUser ==
    /\ op = ""
    /\ client # NoClient
    /\ \E treply \in TokenReplies, ereply \in EntityReplies :
         \E found \in {FoundShotIDs(GetTasksForUser(client, CurrentSession, now, 3, <<"entity">>,
                                                    treply, ereply))} :
           \E treply2 \in IF found = {} THEN {NoTokenReply} ELSE TokenReplies,
              ereply2 \in IF found = {} THEN {NoEntityReply} ELSE EntityReplies,
              ids \in Orderings(found) :
             FinishEntities("GetShotsForUser", [userID |-> 3],
                            GetShotsForUser(client, CurrentSession, now, 3, <<>>,
                                            treply, ereply, treply2, ereply2, ids))
    /\ UNCHANGED client

Next ==
    \/ Return
    \/ Tick
    \/ CallNewClient
    \/ CallNewClientFromEnv
    \/ CallGetAccessToken
    \/ CallIsAuthenticated
    \/ CallFindEntities
    \/ CallGetEntity
    \/ CallCreateEntity
    \/ CallGetUserByLogin
    \/ CallGetUserByName
    \/ CallGetShotsForUser

Spec == Init /\ [][Next]_vars

\* ------------------------------------------------- the concurrent machine

\* Two callers run GetAccessToken once each on one constructed client.  No lock
\* guards the session fields, so the calls interleave at every read and write
\* of a field; the fields are read and written whole.  The clock stands still
\* while the two calls run.

\* The sessions a successful NewClient at second 0 leaves behind.
ConstructedSessions ==
    {Session(p.access, p.refresh, e) :
        p \in {q \in TokenPairs : q.access # ""}, e \in ExpiresInValues}

InitConc ==
    /\ client = ClientOf([SiteURL |-> GoodSiteURL, ScriptName |-> "script", ScriptKey |-> "key"])
    /\ \E s \in ConstructedSessions :
          /\ accessToken = s.accessToken
          /\ refreshToken = s.refreshToken
          /\ tokenExpiry = s.tokenExpiry
    /\ now \in 0..MaxNow
    /\ op = ""
    /\ args = NoArgs
    /\ pre = Snapshot
    /\ exchanges = <<>>
    /\ requests = <<>>
    /\ ret = [c \in Callers |-> NoRet]
    /\ IdleCallers

\* Caller c enters GetAccessToken and reads c.tokenExpiry for the test of
\* client.go:149.
ReadExpiry(c) ==
    /\ pc[c] = "idle"
    /\ seen' = [seen EXCEPT ![c] = [writer |-> writer.tokenExpiry, expiry |-> tokenExpiry]]
    /\ pc' = [pc EXCEPT ![c] = IF Expiring(now, tokenExpiry) THEN "exchange" ELSE "return"]
    /\ UNCHANGED <<client, accessToken, refreshToken, tokenExpiry, now, op, args, pre,
                   exchanges, requests, ret, tokenResp, writer, order, observed>>

\* The round trip of caller c was answered by reply and authenticate found the
\* error err in it: with an error GetAccessToken returns it and the empty token
\* (client.go:150-152), without one the decoded reply sits in the local tokenResp.
Answered(c, reply, err) ==
    /\ exchanges' = Append(exchanges, reply)
    /\ order' = Append(order, c)
    /\ IF err = NoErr
       THEN /\ tokenResp' = [tokenResp EXCEPT ![c] = reply]
            /\ pc' = [pc EXCEPT ![c] = "accessToken"]
            /\ ret' = ret
       ELSE /\ tokenResp' = tokenResp
            /\ pc' = [pc EXCEPT ![c] = "done"]
            /\ ret' = [ret EXCEPT ![c] = Ret(err, TRUE, <<>>, "", FALSE)]
    /\ UNCHANGED <<client, accessToken, refreshToken, tokenExpiry, now, op, args, pre,
                   requests, seen, writer, observed>>

\* Caller c, inside authenticate, makes its round trip and decodes the answer
\* (client.go:118-136); no session field is touched.
Exchange(c) ==
    /\ pc[c] = "exchange"
    /\ \E reply \in TokenReplies :
          Answered(c, reply, authenticate(client, CurrentSession, now, reply).err)

\* client.go:138, c.accessToken = tokenResp.AccessToken.
WriteAccessToken(c) ==
    /\ pc[c] = "accessToken"
    /\ accessToken' = tokenResp[c].access_token
    /\ writer' = [writer EXCEPT !.accessToken = c]
    /\ pc' = [pc EXCEPT ![c] = "refreshToken"]
    /\ UNCHANGED <<client, refreshToken, tokenExpiry, now, op, args, pre, exchanges,
                   requests, ret, tokenResp, seen, order, observed>>

\* client.go:139, c.refreshToken = tokenResp.RefreshToken.
WriteRefreshToken(c) ==
    /\ pc[c] = "refreshToken"
    /\ refreshToken' = tokenResp[c].refresh_token
    /\ writer' = [writer EXCEPT !.refreshToken = c]
    /\ pc' = [pc EXCEPT ![c] = "tokenExpiry"]
    /\ UNCHANGED <<client, accessToken, tokenExpiry, now, op, args, pre, exchanges,
                   requests, ret, tokenResp, seen, order, observed>>

\* The bug this stands for: authenticate without the assignment of client.go:140,
\* so the expiry of an older exchange stays beside the new token.
WriteTokenExpiryOmitted(c) ==
    /\ pc[c] = "tokenExpiry"
    /\ pc' = [pc EXCEPT ![c] = "return"]
    /\ UNCHANGED <<client, accessToken, refreshToken, tokenExpiry, now, op, args, pre,
                   exchanges, requests, ret, tokenResp, seen, writer, order, observed>>

\* client.go:140, c.tokenExpiry = time.Now().Add(tokenResp.ExpiresIn seconds);
\* authenticate returns nil.
WriteTokenExpiry(c) ==
    /\ pc[c] = "tokenExpiry"
    /\ tokenExpiry' = now + tokenResp[c].expires_in
    /\ writer' = [writer EXCEPT !.tokenExpiry = c]
    /\ pc' = [pc EXCEPT ![c] = "return"]
    /\ UNCHANGED <<client, accessToken, refreshToken, now, op, args, pre, exchanges,
                   requests, ret, tokenResp, seen, order, observed>>

\* client.go:155, return c.accessToken, nil: caller c reads the access token;
\* observed keeps the session as it stands at that read.
ReturnToken(c) ==
    /\ pc[c] = "return"
    /\ ret' = [ret EXCEPT ![c] = Ret(NoErr, TRUE, <<>>, accessToken, FALSE)]
    /\ observed' = [observed EXCEPT ![c] = [accessToken |-> writer.accessToken,
                                            tokenExpiry |-> writer.tokenExpiry,
                                            expiry |-> tokenExpiry]]
    /\ pc' = [pc EXCEPT ![c] = "done"]
    /\ UNCHANGED <<client, accessToken, refreshToken, tokenExpiry, now, op, args, pre,
                   exchanges, requests, tokenResp, seen, writer, order>>

NextConc ==
    \E c \in Callers :
        \/ ReadExpiry(c)
        \/ Exchange(c)
        \/ WriteAccessToken(c)
        \/ WriteRefreshToken(c)
        \/ WriteTokenExpiry(c)
        \/ ReturnToken(c)

SpecConc == InitConc /\ [][NextConc]_vars

\* ------------------------------------------------------------ properties

\* The token endpoint answered 200 with a body that decodes.
TokenIssued(reply) == reply.kind = "answer" /\ reply.status = StatusOK /\ reply.decodes
PreSession == Session(pre.accessToken, pre.refreshToken, pre.tokenExpiry)
Primitives == {"FindEntities", "GetEntity", "CreateEntity"}

\* C1 as stated: GetAccessToken returns the stored token without an exchange when
\* now + 60s < tokenExpiry, and in every other case, the boundary
\* now + 60s = tokenExpiry included, makes exactly one exchange and returns the
\* token it obtained.
C1_RefreshAtBoundary ==
    op = "GetAccessToken" =>
        IF pre.now + ExpiryBuffer < pre.tokenExpiry
        THEN exchanges = <<>> /\ ret.err = NoErr /\ ret.token = pre.accessToken
        ELSE /\ Len(exchanges) = 1
             /\ TokenIssued(exchanges[1]) => ret.token = exchanges[1].access_token

\* C1 amended: GetAccessToken returns the stored token without an exchange when
\* now + 60s <= tokenExpiry (the boundary included); when now + 60s > tokenExpiry
\* it makes exactly one exchange, and returns the token it obtained if the
\* exchange succeeded, the empty token and an error if it did not.
C1_RefreshMargin ==
    op = "GetAccessToken" =>
        IF pre.now + ExpiryBuffer <= pre.tokenExpiry
        THEN /\ exchanges = <<>>
             /\ ret.err = NoErr
             /\ ret.token = pre.accessToken
             /\ CurrentSession = PreSession
        ELSE /\ Len(exchanges) = 1
             /\ TokenIssued(exchanges[1]) =>
                    ret.err = NoErr /\ ret.token = exchanges[1].access_token
             /\ ~TokenIssued(exchanges[1]) => ret.err # NoErr /\ ret.token = ""

\* GetAccessToken ran exactly at the boundary and returned the stored token.
C1_AtBoundary ==
    /\ op = "GetAccessToken"
    /\ pre.now + ExpiryBuffer = pre.tokenExpiry
    /\ exchanges = <<>>
    /\ ret.token = pre.accessToken
    /\ ret.token # ""

ValidConfig(config) == config.SiteURL # "" /\ config.ScriptName # "" /\ config.ScriptKey # ""

\* C2 as stated: a NewClient that succeeds on a configuration with the three
\* fields set made exactly one exchange, and IsAuthenticated() right afterwards
\* is true whatever access_token and expires_in the endpoint returned.
C2_AlwaysAuthenticated ==
    (op = "NewClient" /\ ValidConfig(args) /\ ret.err = NoErr) =>
        Len(exchanges) = 1 /\ IsAuthenticated(CurrentSession, now)

\* C2 amended: a NewClient that succeeds on a configuration with the three fields
\* set made exactly one exchange, and IsAuthenticated() right afterwards is true
\* exactly when the returned access_token is not empty and expires_in is positive.
C2_AuthenticatedIffUsableToken ==
    (op = "NewClient" /\ ValidConfig(args) /\ ret.err = NoErr) =>
        /\ Len(exchanges) = 1
        /\ TokenIssued(exchanges[1])
        /\ IsAuthenticated(CurrentSession, now) <=>
               (exchanges[1].access_token # "" /\ exchanges[1].expires_in > 0)

\* NewClient succeeded and the client is authenticated.
C2_Constructed ==
    /\ op = "NewClient"
    /\ ret.err = NoErr
    /\ client # NoClient
    /\ Len(exchanges) = 1
    /\ IsAuthenticated(CurrentSession, now)

\* The session that the exchanges xs, made at time t, leave behind when each
\* replaces the three fields together or none of them.
RECURSIVE SessionAfter(_, _, _)
SessionAfter(s, xs, t) ==
    IF xs = <<>> THEN s
    ELSE SessionAfter(IF TokenIssued(Head(xs))
                      THEN Session(Head(xs).access_token, Head(xs).refresh_token,
                                   t + Head(xs).expires_in)
                      ELSE s,
                      Tail(xs), t)

\* C3: with one caller, after every operation the three session fields are those
\* of the last exchange that succeeded (tokenExpiry = now + expires_in) or, when
\* none did, all three are unchanged; a failed refresh makes GetAccessToken return
\* the empty token with an error after that single exchange.
C3_AtomicReplacement ==
    /\ CurrentSession = SessionAfter(PreSession, exchanges, pre.now)
    /\ (op = "GetAccessToken" /\ exchanges # <<>> /\ ~TokenIssued(exchanges[1])) =>
           ret.token = "" /\ ret.err # NoErr /\ Len(exchanges) = 1

\* A refresh failed on a body that does not decode and the session is the one
\* from before.
C3_FailedRefresh ==
    /\ op = "GetAccessToken"
    /\ Len(exchanges) = 1
    /\ exchanges[1].kind = "answer" /\ exchanges[1].status = StatusOK /\ ~exchanges[1].decodes
    /\ ret.err # NoErr
    /\ accessToken = "tokA"
    /\ CurrentSession = PreSession

\* GetAccessToken did not fail: no exchange was made, or the last one succeeded.
TokenAcquired == exchanges = <<>> \/ TokenIssued(exchanges[Len(exchanges)])

\* C4 as stated: a primitive entity operation sends no entity request and returns
\* an error when the token cannot be had; otherwise it sends exactly one, after
\* any exchange of the call, carrying the stored access token.
C4_AlwaysOneRequest ==
    op \in Primitives =>
        IF ~TokenAcquired
        THEN requests = <<>> /\ ret.err # NoErr
        ELSE /\ Len(requests) = 1
             /\ requests[1].after = Len(exchanges)
             /\ requests[1].token = requests[1].stored

\* The request of the call can be built: the body marshals and the URL parses.
Buildable == args.marshals /\ args.entityType # BadEntityType

\* C4 amended: a primitive entity operation sends no entity request and returns an
\* error when the token cannot be had or the request cannot be built (the body
\* does not marshal, the URL does not parse); otherwise it sends exactly one,
\* after any exchange of the call, carrying the stored access token.
C4_TokenThenRequest ==
    op \in Primitives =>
        IF ~TokenAcquired \/ ~Buildable
        THEN requests = <<>> /\ ret.err # NoErr
        ELSE /\ Len(requests) = 1
             /\ requests[1].after = Len(exchanges)
             /\ requests[1].token = requests[1].stored
             /\ requests[1].token = accessToken

\* FindEntities refreshed the token and then sent its request with the new token.
C4_RefreshedThenSent ==
    /\ op = "FindEntities"
    /\ Len(exchanges) = 1
    /\ Len(requests) = 1
    /\ requests[1].after = 1
    /\ requests[1].token = exchanges[1].access_token
    /\ requests[1].token # pre.accessToken

ConfigErrors ==
    {Err("site URL is required"), Err("script name is required"), Err("script key is required")}
EnvErrors ==
    {Err("FLOW_SITE_URL environment variable is required"),
     Err("FLOW_SCRIPT_NAME environment variable is required"),
     Err("FLOW_SCRIPT_KEY environment variable is required")}

\* C5: NewClient with an empty site URL, script name or script key, and
\* NewClientFromEnv with one of the three variables empty, return a configuration
\* error and no client, and make no token exchange.
C5_MissingCredential ==
    /\ (op = "NewClient" /\ ~ValidConfig(args)) =>
           ret.err \in ConfigErrors /\ ret.nil /\ client = NoClient /\ exchanges = <<>>
    /\ (/\ op = "NewClientFromEnv"
        /\ "" \in {args.FLOW_SITE_URL, args.FLOW_SCRIPT_NAME, args.FLOW_SCRIPT_KEY}) =>
           ret.err \in EnvErrors /\ ret.nil /\ client = NoClient /\ exchanges = <<>>

\* NewClient was given only an empty site URL and refused it.
C5_EmptySiteURL ==
    /\ op = "NewClient"
    /\ args.SiteURL = "" /\ args.ScriptName # "" /\ args.ScriptKey # ""
    /\ ret.err = Err("site URL is required")
    /\ exchanges = <<>>

ExpectedStatus == IF op = "CreateEntity" THEN StatusCreated ELSE StatusOK

\* C6: FindEntities and GetEntity return entities only on status 200 and
\* CreateEntity only on 201; any other status the endpoint answers with gives a
\* request error carrying the status and the raw body, and no entity.
C6_StatusDecides ==
    op \in Primitives =>
        /\ (ret.err = NoErr \/ ~ret.nil \/ ret.entities # <<>>) =>
               /\ Len(requests) = 1
               /\ requests[1].reply.kind = "answer"
               /\ requests[1].reply.status = ExpectedStatus
        /\ \A i \in 1..Len(requests) :
               (requests[i].reply.kind = "answer" /\ requests[i].reply.status # ExpectedStatus) =>
                   /\ ret.err = ErrStatus("request failed with status", requests[i].reply.status,
                                          requests[i].reply.body.raw)
                   /\ ret.nil
                   /\ ret.entities = <<>>

\* CreateEntity was answered 200 with a well-formed body and returned the error.
C6_CreateAnswered200 ==
    /\ op = "CreateEntity"
    /\ Len(requests) = 1
    /\ requests[1].reply.kind = "answer"
    /\ requests[1].reply.status = StatusOK
    /\ requests[1].reply.body.shape = "object"
    /\ ret.err.status = StatusOK
    /\ ret.nil

\* The items of the envelope the last operation decoded.
DecodedItems ==
    IF op = "FindEntities"
    THEN DecodeList(requests[1].reply.body).data
    ELSE <<DecodeObject(requests[1].reply.body).data>>

\* Entity e carries, for every key of the relationships, the relationships' value
\* and, for every other key of the attributes, the attributes' value.
RelationshipWins(e, item) ==
    /\ \A k \in DOMAIN item.relationships : k \in DOMAIN e /\ e[k] = item.relationships[k]
    /\ \A k \in DOMAIN item.attributes \ DOMAIN item.relationships :
           k \in DOMAIN e /\ e[k] = item.attributes[k]

\* C7: in the three primitive operations, a key present in attributes and in
\* relationships has the relationships' value in the flattened entity, and a key
\* present in one of them has that one's value.
C7_RelationshipWins ==
    (op \in Primitives /\ ret.err = NoErr) =>
        /\ Len(ret.entities) = Len(DecodedItems)
        /\ \A i \in 1..Len(ret.entities) : RelationshipWins(ret.entities[i], DecodedItems[i])

\* GetEntity flattened an item whose "project" is in both sections, with
\* different values.
C7_Collision ==
    /\ op = "GetEntity"
    /\ ret.err = NoErr
    /\ "project" \in DOMAIN DecodedItems[1].attributes
    /\ "project" \in DOMAIN DecodedItems[1].relationships
    /\ DecodedItems[1].attributes["project"] # DecodedItems[1].relationships["project"]
    /\ ret.entities[1]["project"] = DecodedItems[1].relationships["project"]

\* The tasks search of the last GetShotsForUser, run again on what the call found
\* and was answered.
TasksSearch ==
    GetTasksForUser(client, PreSession, pre.now, args.userID, <<"entity">>,
                    IF exchanges = <<>> THEN NoTokenReply ELSE exchanges[1],
                    IF requests = <<>> THEN NoEntityReply ELSE requests[1].reply)

\* tasks is what the tasks search returned, and no request but its own was sent.
OnlyTheTasksSearch(tasks) ==
    /\ requests = tasks.reqs
    /\ exchanges = tasks.sent
    /\ \A i \in 1..Len(requests) : requests[i].entityType = "tasks"

\* C8: GetShotsForUser returns an empty sequence and no error, having sent only
\* the tasks search, when that search succeeds with zero tasks; when it fails,
\* GetShotsForUser returns its error and sends no shots lookup either.
C8_NoLookupWithoutTasks ==
    op = "GetShotsForUser" =>
        /\ TasksSearch.err # NoErr =>
               ret.err = TasksSearch.err /\ ret.nil /\ OnlyTheTasksSearch(TasksSearch)
        /\ (TasksSearch.err = NoErr /\ TasksSearch.entities = <<>>) =>
               /\ ret.err = NoErr
               /\ ~ret.nil
               /\ ret.entities = <<>>
               /\ Len(requests) = 1
               /\ OnlyTheTasksSearch(TasksSearch)

\* GetShotsForUser found no task and returned the empty sequence.
C8_ZeroTasks ==
    /\ op = "GetShotsForUser"
    /\ Len(requests) = 1
    /\ requests[1].reply.kind = "answer"
    /\ requests[1].reply.status = StatusOK
    /\ requests[1].reply.body.raw = "list0"
    /\ ret.err = NoErr
    /\ ~ret.nil
    /\ ret.entities = <<>>

\* The search of the last user lookup, run again on what the call found and was
\* answered.
UserSearch ==
    FindEntities(client, PreSession, pre.now, "human_users",
                 Filters(FALSE, <<Cond(IF op = "GetUserByLogin" THEN "login" ELSE "name",
                                       "is", args.user, <<>>, NoRef)>>, TRUE),
                 UserFields,
                 IF exchanges = <<>> THEN NoTokenReply ELSE exchanges[1],
                 IF requests = <<>> THEN NoEntityReply ELSE requests[1].reply)
NotFound ==
    ErrStatus(IF op = "GetUserByLogin" THEN "user not found with login"
              ELSE "user not found with name", 0, args.user)

\* C9: GetUserByLogin and GetUserByName return the first match of a search that
\* succeeds with matches, a not-found error and no entity when it succeeds
\* without, and the search's error unchanged when it fails; FindEntities answered
\* with zero items returns an empty sequence and no error.
C9_FirstMatchOrNotFound ==
    /\ op \in {"GetUserByLogin", "GetUserByName"} =>
           /\ requests = UserSearch.reqs
           /\ (UserSearch.err = NoErr /\ Len(UserSearch.entities) > 0) =>
                  ret.err = NoErr /\ ret.entities = <<UserSearch.entities[1]>>
           /\ (UserSearch.err = NoErr /\ Len(UserSearch.entities) = 0) =>
                  ret.err = NotFound /\ ret.nil /\ ret.entities = <<>>
           /\ UserSearch.err # NoErr =>
                  ret.err = UserSearch.err /\ ret.nil /\ ret.entities = <<>>
    /\ (/\ op = "FindEntities"
        /\ Len(requests) = 1
        /\ requests[1].reply.kind = "answer"
        /\ requests[1].reply.status = StatusOK
        /\ DecodeList(requests[1].reply.body) = [ok |-> TRUE, data |-> <<>>]) =>
           ret.err = NoErr /\ ~ret.nil /\ ret.entities = <<>>

\* GetUserByLogin was answered two users and returned the first.
C9_FirstOfTwo ==
    /\ op = "GetUserByLogin"
    /\ ret.err = NoErr
    /\ Len(DecodeList(requests[1].reply.body).data) = 2
    /\ ret.entities = <<FindFlatten(DecodeList(requests[1].reply.body).data[1])>>
    /\ ret.entities # <<FindFlatten(DecodeList(requests[1].reply.body).data[2])>>

\* Caller c has made its round trip to the token endpoint.
Exchanged(c) == \E i \in 1..Len(order) : order[i] = c
\* The place in the order of exchanges of the one that wrote a field (0: the
\* constructor's, before both callers').
Rank(w) == IF w = 0 THEN 0 ELSE CHOOSE i \in 1..Len(order) : order[i] = w
\* Caller c has returned a token it found beside the expiry of another exchange.
Torn(c) ==
    /\ pc[c] = "done"
    /\ ret[c].err = NoErr
    /\ observed[c].accessToken # observed[c].tokenExpiry

\* C10 as stated takes now + 60s >= tokenExpiry as the condition under which the
\* two callers exchange: every caller that read a tokenExpiry with
\* now + 60s >= tokenExpiry, the boundary included, goes on to a token exchange.
C10_ExchangeAtBoundary ==
    \A c \in Callers :
        (pc[c] # "idle" /\ now + ExpiryBuffer >= seen[c].expiry) =>
            (pc[c] = "exchange" \/ Exchanged(c))

\* C10 amended: concurrent use of one client is not safe when
\* now + 60s > tokenExpiry.  A caller of GetAccessToken goes on to a token
\* exchange exactly when the tokenExpiry it read has now + 60s > tokenExpiry
\* (at now + 60s = tokenExpiry it makes none), whatever another caller is doing
\* in between, so two callers that read the same such expiry both exchange; each
\* call makes at most one exchange; and a caller returns an accessToken it found
\* beside the tokenExpiry of another exchange only when both callers have made an
\* exchange.
C10_UnsafeWhenExpiring ==
    /\ \A c \in Callers :
          pc[c] # "idle" =>
              ((pc[c] = "exchange" \/ Exchanged(c)) <=> now + ExpiryBuffer > seen[c].expiry)
    /\ \A i, j \in 1..Len(order) : order[i] = order[j] => i = j
    /\ \A c \in Callers :
          Torn(c) => /\ \A d \in Callers : Exchanged(d)
                     /\ observed[c].accessToken \in Callers
                     /\ observed[c].tokenExpiry \in Callers

\* Both callers read the constructor's expiry with now + 60s > tokenExpiry and
\* both made an exchange for it; one of them then returned the access token of
\* the newer exchange while tokenExpiry still held the value of the older one,
\* the two exchanges having issued different tokens and lifetimes.
C10_TornSession ==
    /\ Len(order) = 2
    /\ order[1] # order[2]
    /\ \A c \in Callers : seen[c].writer = 0 /\ now + ExpiryBuffer > seen[c].expiry
    /\ \E c \in Callers :
          /\ Torn(c)
          /\ Rank(observed[c].accessToken) = 2
          /\ Rank(observed[c].tokenExpiry) = 1
          /\ ret[c].token = exchanges[2].access_token
          /\ ret[c].token # ""
          /\ observed[c].expiry = now + exchanges[1].expires_in
          /\ exchanges[1].access_token # exchanges[2].access_token
          /\ exchanges[1].expires_in # exchanges[2].expires_in

\* The value a task carries under "entity", JNull when it carries none.
EntityValue(task) == IF "entity" \in DOMAIN task THEN task["entity"] ELSE JNull
\* v is the object of a Shot whose id is the number n.
IsShot(v, n) ==
    /\ v.k = "obj"
    /\ "type" \in DOMAIN v.o
    /\ v.o["type"] = JStr("Shot")
    /\ "id" \in DOMAIN v.o
    /\ v.o["id"] = JNum(n, 0)
\* The ids that occur in links: what the envelope items may name.
LinkIDs == 0..16
\* The ids of the Shots the tasks are linked to, the link being the Shot's
\* object or that object under a "data" key.
RelatedShotIDs(tasks) ==
    {n \in LinkIDs :
        \E i \in 1..Len(tasks) :
            \/ IsShot(EntityValue(tasks[i]), n)
            \/ /\ EntityValue(tasks[i]).k = "obj"
               /\ "data" \in DOMAIN EntityValue(tasks[i]).o
               /\ IsShot(EntityValue(tasks[i]).o["data"], n)}

\* The tasks search having succeeded, the call sent a shots lookup only for a
\* non-empty set want of ids, and the lookup's one filter is ["id", "in", ids]
\* with ids holding every member of want once and nothing else.
LooksUpExactly(want) ==
    IF want = {}
    THEN /\ ret.err = NoErr
         /\ ~ret.nil
         /\ ret.entities = <<>>
         /\ Len(requests) = 1
         /\ OnlyTheTasksSearch(TasksSearch)
    ELSE /\ Len(requests) \in {1, 2}
         /\ Len(requests) = 1 => ret.err # NoErr
         /\ Len(requests) = 2 =>
               /\ requests[2].entityType = "shots"
               /\ Len(requests[2].filters) = 1
               /\ requests[2].filters[1].field = "id"
               /\ requests[2].filters[1].rel = "in"
               /\ Len(requests[2].filters[1].ids) = Cardinality(want)
               /\ {requests[2].filters[1].ids[i] :
                      i \in 1..Len(requests[2].filters[1].ids)} = want

\* C11: in GetShotsForUser the id list of the shots lookup's filter
\* ["id", "in", ids] holds exactly the distinct ids of the Shots the tasks are
\* linked to, each once, the link being the object itself or the object under a
\* "data" key; a task whose entity is absent, is no object or is of another type
\* adds no id; and when no id is found, tasks or not, no shots lookup is sent and
\* the empty sequence is returned.
C11_LookupIdsAreRelatedShots ==
    (op = "GetShotsForUser" /\ TasksSearch.err = NoErr) =>
        LooksUpExactly(RelatedShotIDs(TasksSearch.entities))

\* Five tasks came back: two of shot 7 (one link wrapped, one direct), one of an
\* asset with id 7, one whose entity is a string and one without entity; the
\* shots lookup was sent for the ids <<7>>.
C11_TwoTasksOneShot ==
    /\ op = "GetShotsForUser"
    /\ Len(requests) = 2
    /\ requests[1].reply.body.raw = "list4"
    /\ Len(TasksSearch.entities) = 5
    /\ requests[2].entityType = "shots"
    /\ requests[2].filters[1].ids = <<7>>

\* Entity e carries the top-level id and type of item under "id" and "type".
IdentityKept(e, item) ==
    /\ "id" \in DOMAIN e
    /\ "type" \in DOMAIN e
    /\ e["id"] = JInt(item.id)
    /\ e["type"] = JStr(item.type)

\* C12: every Entity that FindEntities, GetEntity or CreateEntity flattens from
\* an envelope item has the keys "id" and "type", holding the item's top-level
\* id and type, whatever keys the item's attributes and relationships have, "id"
\* and "type" included.
C12_IdentityKept ==
    (op \in Primitives /\ ret.err = NoErr) =>
        /\ Len(ret.entities) = Len(DecodedItems)
        /\ \A i \in 1..Len(ret.entities) : IdentityKept(ret.entities[i], DecodedItems[i])

\* FindEntities returned, for an item with top-level id 12 whose attributes have
\* an "id" of 99, an Entity whose "id" is 99.
C12_IdOverwritten ==
    /\ op = "FindEntities"
    /\ ret.err = NoErr
    /\ \E i \in 1..Len(ret.entities) :
          /\ DecodedItems[i].id = 12
          /\ "id" \in DOMAIN DecodedItems[i].attributes
          /\ ret.entities[i]["id"] = DecodedItems[i].attributes["id"]
          /\ ret.entities[i]["id"] # JInt(DecodedItems[i].id)

====
